---- MODULE Spec2Model ----
(***************************************************************************)
(* Model of src/server.js (lines 1-161): the response cache middleware,    *)
(* the leaderboard refresher and the GET /users handler, running as        *)
(* cooperative tasks of one Node.js process against an upstream HTTP API   *)
(* and a Redis store reached through one ioredis connection.               *)
(*                                                                         *)
(* JavaScript strings are sequences of one-character strings, so that      *)
(* slice(-6) and the destructuring of a string ([userId, postCount] = s)   *)
(* are computed as the code computes them.                                 *)
(*                                                                         *)
(* A step of the model is one turn of the event loop: the completion of    *)
(* an awaited store command or upstream call, followed by the code of the  *)
(* request that awaited it up to its next await.                           *)
(***************************************************************************)
EXTENDS Integers, Sequences, FiniteSets, TLC

\* ------------------------------------------------------------------ bounds

\* Requests served concurrently by one process run.
Requests == {"r1", "r2"}

\* Incidents in one behaviour: a failed upstream call, a rejected store
\* command, a connection error of the store client, an expired cache entry,
\* a restart of the process (a redeploy against the same store).
MaxIncidents == 2

\* Bearer tokens the process may be configured with (ACCESS_TOKEN).
TokenA == <<"a", "1", "2", "3", "4", "5", "6">>
TokenB == <<"b", "1", "2", "3", "4", "5", "6">>
TokenC == <<"x", "y", "z">>
Tokens == {TokenA, TokenB, TokenC}

\* Upstream states: the user mapping of GET /users and the number of posts
\* GET /users/:id/posts returns for each user.
Id1 == <<"1">>
Id2 == <<"2">>
Id12 == <<"1", "2">>
UpstreamAliceBob ==
    [users |-> (Id1 :> "Alice") @@ (Id2 :> "Bob"),
     posts |-> (Id1 :> 3) @@ (Id2 :> 1)]
UpstreamCarol ==
    [users |-> (Id12 :> "Carol"),
     posts |-> (Id12 :> 2)]
UpstreamThree ==
    [users |-> (Id1 :> "Alice") @@ (Id2 :> "Bob") @@ (Id12 :> "Carol"),
     posts |-> (Id1 :> 1) @@ (Id2 :> 0) @@ (Id12 :> 2)]
UpstreamNone ==
    [users |-> << >>,
     posts |-> << >>]
Upstreams == {UpstreamAliceBob, UpstreamCarol, UpstreamThree, UpstreamNone}

\* ------------------------------------------------------- program constants

\* cache("top_users") at the route registration.
LogicalKey == <<"top_users">>
\* ACCESS_TOKEN?.slice(-6)
FingerprintLen == 6
\* zrevrange("user_post_counts", 0, 4, "WITHSCORES")
RangeStart == 0
RangeStop == 4

\* ----------------------------------------------------------- JavaScript

Min(a, b) == IF a < b THEN a ELSE b
Max(a, b) == IF a > b THEN a ELSE b

Digits == <<"0", "1", "2", "3", "4", "5", "6", "7", "8", "9">>
IsDigit(c) == \E i \in 1..10 : Digits[i] = c
DigitValue(c) == (CHOOSE i \in 1..10 : Digits[i] = c) - 1

\* Number.prototype.toString for the scores Redis returns (0..99 here).
NumberToString(n) ==
    IF n < 10 THEN <<Digits[n + 1]>>
    ELSE <<Digits[(n \div 10) + 1], Digits[(n % 10) + 1]>>

\* The numeric value of an integer-like property key.
RECURSIVE KeyValue(_)
KeyValue(s) ==
    IF Len(s) = 0 THEN 0
    ELSE 10 * KeyValue(SubSeq(s, 1, Len(s) - 1)) + DigitValue(s[Len(s)])

\* String comparison, as Redis orders members of equal score.
RECURSIVE LexLess(_, _)
LexLess(s, t) ==
    IF Len(t) = 0 THEN FALSE
    ELSE IF Len(s) = 0 THEN TRUE
    ELSE IF s[1] # t[1] THEN DigitValue(s[1]) < DigitValue(t[1])
    ELSE LexLess(Tail(s), Tail(t))

\* JSON numbers, NaN and null.
Num(n) == [t |-> "num", v |-> n]
NaN == [t |-> "NaN", v |-> 0]
Null == [t |-> "null", v |-> 0]

\* parseInt of one character of a string, or of undefined (the empty
\* sequence here): the digit's value, else NaN.
ParseIntChar(cs) ==
    IF Len(cs) = 1 /\ IsDigit(cs[1]) THEN Num(DigitValue(cs[1])) ELSE NaN

\* The i-th value an iterated string yields, or undefined (the empty
\* sequence) past its end.
ElementAt(s, i) == IF i <= Len(s) THEN <<s[i]>> ELSE << >>

\* String.prototype.slice(-n)
SliceLast(s, n) == SubSeq(s, Max(1, Len(s) - n + 1), Len(s))

\* ------------------------------------------------------------- payloads

\* A handler's JSON value: the leaderboard (line 124) or the error object
\* of the failure path (line 127).
ListBody(entries) ==
    [kind |-> "list", entries |-> entries, error |-> "", details |-> ""]
ErrorBody(message) ==
    [kind |-> "error", entries |-> << >>, error |-> "Internal server error",
     details |-> message]

\* JSON.stringify: NaN is serialised as null. A text is well-formed (wf) when
\* JSON.parse accepts it.
StringifyNumber(x) == IF x.t = "NaN" THEN Null ELSE x
JSONstringify(data) ==
    [wf |-> TRUE,
     val |-> [data EXCEPT !.entries =
                [i \in 1..Len(data.entries) |->
                    [data.entries[i] EXCEPT !.post_count = StringifyNumber(@)]]]]
GarbageText == [wf |-> FALSE, val |-> ListBody(<< >>)]
NoText == [wf |-> TRUE, val |-> ListBody(<< >>)]
\* JSON.parse: throws on a text that is not JSON.
ParseThrows(text) == ~text.wf
JSONparse(text) == text.val

\* ------------------------------------------------------------ the store

\* Cached response entries: key -> value or absent. "by" is the token of the
\* process that wrote the entry (bookkeeping, not stored by Redis).
Absent == [present |-> FALSE, text |-> NoText, by |-> << >>]
Entry(text, by) == [present |-> TRUE, text |-> text, by |-> by]

\* ZADD: a member has one score, re-adding overwrites.
ZAdd_KeepsOld(zs, score, member) == zs \cup {<<member, score>>}
ZAdd(zs, score, member) ==
    {p \in zs : p[1] # member} \cup {<<member, score>>}

ApplyPipeline_FirstOnly(zs, batch) ==
    IF Len(batch) = 0 THEN zs ELSE ZAdd(zs, batch[1][1], batch[1][2])
RECURSIVE ApplyPipeline(_, _)
ApplyPipeline(zs, batch) ==
    IF Len(batch) = 0 THEN zs
    ELSE ApplyPipeline(ZAdd(zs, batch[1][1], batch[1][2]), Tail(batch))

\* ZREVRANGE order: score descending, members of equal score in reverse
\* lexicographic order.
RanksBefore(p, q) ==
    \/ p[2] > q[2]
    \/ p[2] = q[2] /\ LexLess(q[1], p[1])

RECURSIVE SortDescending(_)
SortDescending(zs) ==
    IF zs = {} THEN << >>
    ELSE LET top == CHOOSE p \in zs : \A q \in zs \ {p} : RanksBefore(p, q)
         IN <<top>> \o SortDescending(zs \ {top})

RECURSIVE Flatten(_)
Flatten(pairs) ==
    IF Len(pairs) = 0 THEN << >>
    ELSE <<pairs[1][1], NumberToString(pairs[1][2])>> \o Flatten(Tail(pairs))

\* The reply of redis.zrevrange(key, start, stop, "WITHSCORES") as the client
\* delivers it: one flat array of strings, member, score, member, score, ...
ZRevRangeWithScores(zs, start, stop) ==
    LET sorted == SortDescending(zs)
    IN Flatten(SubSeq(sorted, start + 1, Min(stop + 1, Len(sorted))))

\* -------------------------------------------------------- the middleware

\* cacheKey = `${key}_${ACCESS_TOKEN?.slice(-6) || 'default'}`
Fingerprint(token) ==
    IF Len(SliceLast(token, FingerprintLen)) = 0 THEN <<"default">>
    ELSE SliceLast(token, FingerprintLen)
CacheKey_NoFingerprint(key, token) == key \o <<"_">> \o <<"default">>
CacheKey(key, token) == key \o <<"_">> \o Fingerprint(token)

CacheKeys == {CacheKey(LogicalKey, t) : t \in Tokens}

\* if (cachedData): redis.get resolves null for an absent key.
CacheHit_Never(cachedData) == FALSE
CacheHit(cachedData) == cachedData.present

\* ---------------------------------------------------------- the upstream

\* fetchAllUsers: response.data.users, {} when the call fails.
FetchAllUsers(ok, up) == IF ok THEN up.users ELSE << >>

\* fetchUserPosts: response.data.posts, [] when the call fails.
FetchUserPosts(ok, up, userId) ==
    IF ok /\ userId \in DOMAIN up.posts
    THEN [i \in 1..up.posts[userId] |-> "post"] ELSE << >>

\* Object.keys(users): integer-like keys in ascending numeric order.
RECURSIVE ObjectKeys(_)
ObjectKeys(users) ==
    IF DOMAIN users = {} THEN << >>
    ELSE LET first == CHOOSE k \in DOMAIN users :
                        \A j \in DOMAIN users : KeyValue(k) <= KeyValue(j)
         IN <<first>> \o ObjectKeys([k \in DOMAIN users \ {first} |-> users[k]])

\* ----------------------------------------------------------- the handler

\* if (!topUsers.length)
NeedsRefresh_Never(topUsers) == FALSE
NeedsRefresh_Always(topUsers) == TRUE
NeedsRefresh(topUsers) == Len(topUsers) = 0

\* users[userId] || "Unknown"
NameOf(users, userId) ==
    IF userId \in DOMAIN users THEN users[userId] ELSE "Unknown"

\* topUsers.map(([userId, postCount]) => ({user_id, name, post_count})):
\* each element of topUsers is destructured as an iterable.
MapTopUsers(topUsers, users) ==
    [i \in 1..Len(topUsers) |->
        LET userId == ElementAt(topUsers[i], 1)
            postCount == ElementAt(topUsers[i], 2)
        IN [user_id |-> userId,
            name |-> NameOf(users, userId),
            post_count |-> ParseIntChar(postCount)]]

\* ---------------------------------------------------------------- state

VARIABLES
    ACCESS_TOKEN,   \* process.env.ACCESS_TOKEN of the running process
    useRedis,       \* the process-wide store flag (line 18)
    upstream,       \* what the remote API holds
    zset,           \* the sorted set "user_post_counts": <<member, score>> pairs
    kv,             \* the cached response entries by cache key
    queue,          \* commands sent on the Redis connection, not yet answered
    req,            \* per request: where it is suspended, its locals, its record
    incidents       \* incidents so far

vars == <<ACCESS_TOKEN, useRedis, upstream, zset, kv, queue, req, incidents>>

\* A request that has not arrived. pc is the await the request is suspended
\* at; the fields after "pipeline" record what the request did and saw.
NewRequest(r) ==
    [id |-> r, pc |-> "idle",
     token |-> << >>, cacheKey |-> << >>, wrapped |-> FALSE,
     topUsers |-> << >>, userIds |-> << >>, pipeline |-> << >>,
     nresp |-> 0, status |-> 0, body |-> NoText,
     hit |-> FALSE, hitBy |-> << >>, mwCaught |-> "no",
     nextCalls |-> 0, cacheWrites |-> 0,
     usersCalls |-> 0, postsCalls |-> 0,
     refreshes |-> 0, refreshesDone |-> 0, firstRead |-> "none",
     mappingFailed |-> FALSE, passWrites |-> 0, handlerFailed |-> FALSE,
     flagAtArrival |-> FALSE, flagOn |-> FALSE, zsetAtArrival |-> {},
     storeOK |-> TRUE, upstreamOK |-> TRUE, noExpiry |-> TRUE,
     doneBefore |-> {}]

Command(op, q, text, batch) ==
    [op |-> op, r |-> q.id, key |-> q.cacheKey, text |-> text,
     by |-> q.token, batch |-> batch]

\* The outcome of running a request's code up to its next await: the
\* request afterwards and the store commands it sent on the way.
Ran(q, cmds) == [q |-> q, cmds |-> cmds]

\* The request is over: the locals are dropped.
Finished(q) ==
    [q EXCEPT !.pc = "done", !.topUsers = << >>, !.userIds = << >>,
              !.pipeline = << >>]

\* res.json(data) as the client sees it (express serialises the value).
OriginalJson(q, status, data) ==
    [q EXCEPT !.nresp = @ + 1, !.status = status, !.body = JSONstringify(data)]

\* res.json of a request, lines 68-71 when the middleware wrapped it:
\* the cache write is sent, not awaited, then the response is emitted.
ResJson_NoWrite(q, u, status, data) ==
    Ran(Finished(OriginalJson(q, status, data)), << >>)
ResJson(q, u, status, data) ==
    IF q.wrapped /\ u
    THEN Ran(Finished(OriginalJson([q EXCEPT !.cacheWrites = @ + 1], status, data)),
             <<Command("setex", q, JSONstringify(data), << >>)>>)
    ELSE Ran(Finished(OriginalJson(q, status, data)), << >>)

\* catch (error) of the handler, lines 125-128.
HandlerCatch_NoResponse(q, u, message) ==
    Ran([q EXCEPT !.handlerFailed = TRUE, !.pc = "unanswered"], << >>)
HandlerCatch(q, u, message) ==
    ResJson([q EXCEPT !.handlerFailed = TRUE], u, 500, ErrorBody(message))

\* const users = await fetchAllUsers(), line 123.
Line123(q) ==
    Ran([q EXCEPT !.pc = "names", !.usersCalls = @ + 1], << >>)

\* if (useRedis) topUsers = await redis.zrevrange(...), line 122.
Line122(q, u) ==
    IF u THEN Ran([q EXCEPT !.pc = "zrevrange2"], <<Command("zrevrange", q, NoText, << >>)>>)
    ELSE Line123(q)

\* updateUserPostCounts returned or caught its error.
RefreshReturns(q, u) ==
    Line122([q EXCEPT !.refreshesDone = @ + 1, !.userIds = << >>,
                      !.pipeline = << >>], u)

\* if (!topUsers.length) await updateUserPostCounts(), line 121; the pass
\* starts with its fetchAllUsers, line 101.
Line121(q, u) ==
    IF NeedsRefresh(q.topUsers)
    THEN Ran([q EXCEPT !.pc = "mapping", !.refreshes = @ + 1,
                       !.usersCalls = @ + 1], << >>)
    ELSE Line122(q, u)

\* let topUsers = useRedis ? await redis.zrevrange(...) : [], line 120.
Line120(q, u) ==
    IF u THEN Ran([q EXCEPT !.pc = "zrevrange1"], <<Command("zrevrange", q, NoText, << >>)>>)
    ELSE Line121([q EXCEPT !.topUsers = << >>, !.firstRead = "skipped"], u)

\* next(): the wrapped handler is entered.
CallNext(q, u) == Line120([q EXCEPT !.nextCalls = @ + 1], u)

\* Lines 67-72: res.json is wrapped, then next().
WrapAndNext(q, u) == CallNext([q EXCEPT !.wrapped = TRUE], u)

\* catch (err) of the middleware, lines 73-76: next() with res.json as it was.
MiddlewareCatch_Responds(q, u, err) ==
    Ran(Finished(OriginalJson([q EXCEPT !.mwCaught = err], 500, ErrorBody(err))),
        << >>)
MiddlewareCatch(q, u, err) == CallNext([q EXCEPT !.mwCaught = err], u)

\* Lines 60-66 on entry: with the store enabled the middleware awaits
\* redis.get(cacheKey); otherwise it goes on to wrap and next().
MiddlewareEnter(q, u) ==
    IF u THEN Ran([q EXCEPT !.pc = "get"], <<Command("get", q, NoText, << >>)>>)
    ELSE WrapAndNext(q, u)

\* Lines 63-72 once redis.get has resolved with cachedData.
MiddlewareGot_NoReturn(q, u, cachedData) ==
    IF CacheHit(cachedData)
    THEN IF ParseThrows(cachedData.text)
         THEN MiddlewareCatch(q, u, "parse error")
         ELSE WrapAndNext(OriginalJson([q EXCEPT !.hit = TRUE, !.hitBy = cachedData.by],
                                       200, JSONparse(cachedData.text)), u)
    ELSE WrapAndNext(q, u)
MiddlewareGot_HitRewrites(q, u, cachedData) ==
    IF CacheHit(cachedData)
    THEN IF ParseThrows(cachedData.text)
         THEN MiddlewareCatch(q, u, "parse error")
         ELSE Ran(Finished(OriginalJson([q EXCEPT !.hit = TRUE, !.hitBy = cachedData.by,
                                                  !.cacheWrites = @ + 1],
                                        200, JSONparse(cachedData.text))),
                  <<Command("setex", q, cachedData.text, << >>)>>)
    ELSE WrapAndNext(q, u)
MiddlewareGot(q, u, cachedData) ==
    IF CacheHit(cachedData)
    THEN IF ParseThrows(cachedData.text)
         THEN MiddlewareCatch(q, u, "parse error")
         ELSE Ran(Finished(OriginalJson([q EXCEPT !.hit = TRUE, !.hitBy = cachedData.by],
                                        200, JSONparse(cachedData.text))), << >>)
    ELSE WrapAndNext(q, u)

\* Lines 102-110 once fetchAllUsers has returned users: with the store
\* enabled a pipeline is opened and the first user's posts are fetched; an
\* empty pipeline is executed without a round trip to the store.
RefreshGotUsers(q, u, users) ==
    IF u /\ Len(ObjectKeys(users)) > 0
    THEN Ran([q EXCEPT !.pc = "posts", !.userIds = ObjectKeys(users),
                       !.pipeline = << >>, !.postsCalls = @ + 1], << >>)
    ELSE RefreshReturns(q, u)

\* Lines 105-109 once fetchUserPosts has returned posts for the current
\* user: the zadd is queued on the pipeline; after the last user the
\* pipeline is executed.
RefreshGotPosts_SkipsEmpty(q, posts) ==
    LET batch == IF Len(posts) = 0 THEN q.pipeline
                 ELSE Append(q.pipeline, <<Len(posts), Head(q.userIds)>>)
    IN IF Len(q.userIds) > 1
       THEN Ran([q EXCEPT !.userIds = Tail(@), !.pipeline = batch,
                          !.postsCalls = @ + 1], << >>)
       ELSE Ran([q EXCEPT !.pc = "exec", !.userIds = << >>, !.pipeline = << >>,
                          !.passWrites = @ + Len(batch)],
                <<Command("exec", q, NoText, batch)>>)
RefreshGotPosts(q, posts) ==
    LET batch == Append(q.pipeline, <<Len(posts), Head(q.userIds)>>)
    IN IF Len(q.userIds) > 1
       THEN Ran([q EXCEPT !.userIds = Tail(@), !.pipeline = batch,
                          !.postsCalls = @ + 1], << >>)
       ELSE Ran([q EXCEPT !.pc = "exec", !.userIds = << >>, !.pipeline = << >>,
                          !.passWrites = @ + Len(batch)],
                <<Command("exec", q, NoText, batch)>>)

\* Line 124 once fetchAllUsers has returned users.
HandlerGotNames(q, u, users) ==
    ResJson(q, u, 200, ListBody(MapTopUsers(q.topUsers, users)))

\* ------------------------------------------------------------- actions

Init ==
    /\ ACCESS_TOKEN = TokenA
    /\ useRedis = TRUE
    /\ upstream \in Upstreams
    /\ zset = {}
    /\ \E first \in {Absent, Entry(GarbageText, << >>)} :
         kv = [k \in CacheKeys |->
                 IF k = CacheKey(LogicalKey, TokenA) THEN first ELSE Absent]
    /\ queue = << >>
    /\ req = [r \in Requests |-> NewRequest(r)]
    /\ incidents = 0

\* What a fault of the store or the passing of a TTL leaves on the record of
\* every request that has arrived.
Noted(field) ==
    [r \in Requests |->
        IF req[r].pc = "idle" THEN req[r] ELSE [req[r] EXCEPT ![field] = FALSE]]

\* A call succeeds or, while the behaviour has incidents left, fails.
Outcomes == IF incidents < MaxIncidents THEN BOOLEAN ELSE {TRUE}
Incident(ok) == incidents' = IF ok THEN incidents ELSE incidents + 1

\* The request r is replaced by `ran.q` and its commands are sent.
Step(r, ran, base) ==
    /\ req' = [base EXCEPT ![r] = ran.q]
    /\ queue' = queue \o ran.cmds

StepAnswered(r, ran, base) ==
    /\ req' = [base EXCEPT ![r] = ran.q]
    /\ queue' = Tail(queue) \o ran.cmds

\* A GET /users request arrives: rateLimit, then the cache middleware.
Arrive(r) ==
    /\ req[r].pc = "idle"
    /\ LET q == [req[r] EXCEPT
                    !.token = ACCESS_TOKEN,
                    !.cacheKey = CacheKey(LogicalKey, ACCESS_TOKEN),
                    !.flagAtArrival = useRedis, !.flagOn = useRedis,
                    !.zsetAtArrival = zset,
                    !.doneBefore = {p \in Requests : req[p].pc = "done"}]
       IN Step(r, MiddlewareEnter(q, useRedis), req)
    /\ UNCHANGED <<ACCESS_TOKEN, useRedis, upstream, zset, kv, incidents>>

\* The record of a request one of whose own store commands was rejected.
StoreFailed(q) == [q EXCEPT !.storeOK = FALSE]

Awaited(r, op, pc) ==
    /\ Len(queue) > 0
    /\ Head(queue).op = op
    /\ Head(queue).r = r
    /\ req[r].pc = pc

\* redis.get resolves or rejects.
GetReply(r) ==
    /\ Awaited(r, "get", "get")
    /\ \E ok \in Outcomes :
        /\ Incident(ok)
        /\ IF ok
           THEN StepAnswered(r, MiddlewareGot(req[r], useRedis, kv[Head(queue).key]),
                             req)
           ELSE StepAnswered(r, MiddlewareCatch(StoreFailed(req[r]), useRedis, "store error"),
                             Noted("storeOK"))
    /\ UNCHANGED <<ACCESS_TOKEN, useRedis, upstream, zset, kv>>

\* The zrevrange of line 120 resolves or rejects.
FirstReadReply(r) ==
    /\ Awaited(r, "zrevrange", "zrevrange1")
    /\ \E ok \in Outcomes :
        /\ Incident(ok)
        /\ IF ok
           THEN LET reply == ZRevRangeWithScores(zset, RangeStart, RangeStop)
                IN StepAnswered(r, Line121([req[r] EXCEPT
                           !.topUsers = reply,
                           !.firstRead = IF Len(reply) = 0 THEN "empty" ELSE "nonempty"],
                       useRedis), req)
           ELSE StepAnswered(r, HandlerCatch(StoreFailed(req[r]), useRedis, "store error"),
                             Noted("storeOK"))
    /\ UNCHANGED <<ACCESS_TOKEN, useRedis, upstream, zset, kv>>

\* The zrevrange of line 122 resolves or rejects.
SecondReadReply(r) ==
    /\ Awaited(r, "zrevrange", "zrevrange2")
    /\ \E ok \in Outcomes :
        /\ Incident(ok)
        /\ IF ok
           THEN StepAnswered(r, Line123([req[r] EXCEPT
                       !.topUsers = ZRevRangeWithScores(zset, RangeStart, RangeStop)]),
                   req)
           ELSE StepAnswered(r, HandlerCatch(StoreFailed(req[r]), useRedis, "store error"),
                             Noted("storeOK"))
    /\ UNCHANGED <<ACCESS_TOKEN, useRedis, upstream, zset, kv>>

\* pipeline.exec resolves (the adds are applied) or rejects (caught, line 111).
ExecReply(r) ==
    /\ Awaited(r, "exec", "exec")
    /\ \E ok \in Outcomes :
        /\ Incident(ok)
        /\ zset' = IF ok THEN ApplyPipeline(zset, Head(queue).batch) ELSE zset
        /\ IF ok THEN StepAnswered(r, RefreshReturns(req[r], useRedis), req)
           ELSE StepAnswered(r, RefreshReturns(StoreFailed(req[r]), useRedis),
                             Noted("storeOK"))
    /\ UNCHANGED <<ACCESS_TOKEN, useRedis, upstream, kv>>

\* The cache write of line 69 completes or rejects (logged); nobody awaits it.
SetexReply ==
    /\ Len(queue) > 0
    /\ Head(queue).op = "setex"
    /\ \E ok \in Outcomes :
        /\ Incident(ok)
        /\ kv' = IF ok THEN [kv EXCEPT ![Head(queue).key] =
                                Entry(Head(queue).text, Head(queue).by)]
                 ELSE kv
        /\ req' = IF ok THEN req ELSE Noted("storeOK")
    /\ queue' = Tail(queue)
    /\ UNCHANGED <<ACCESS_TOKEN, useRedis, upstream, zset>>

UpstreamFailed(q, ok) == IF ok THEN q ELSE [q EXCEPT !.upstreamOK = FALSE]

\* The fetchAllUsers of the refresh pass (line 101) returns.
MappingReply(r) ==
    /\ req[r].pc = "mapping"
    /\ \E ok \in Outcomes :
        /\ Incident(ok)
        /\ Step(r, RefreshGotUsers(
                       UpstreamFailed([req[r] EXCEPT !.mappingFailed = ~ok], ok),
                       useRedis, FetchAllUsers(ok, upstream)), req)
    /\ UNCHANGED <<ACCESS_TOKEN, useRedis, upstream, zset, kv>>

\* The fetchUserPosts of the refresh pass (line 106) returns.
PostsReply(r) ==
    /\ req[r].pc = "posts"
    /\ \E ok \in Outcomes :
        /\ Incident(ok)
        /\ Step(r, RefreshGotPosts(UpstreamFailed(req[r], ok),
                       FetchUserPosts(ok, upstream, Head(req[r].userIds))), req)
    /\ UNCHANGED <<ACCESS_TOKEN, useRedis, upstream, zset, kv>>

\* The fetchAllUsers of the handler (line 123) returns.
NamesReply(r) ==
    /\ req[r].pc = "names"
    /\ \E ok \in Outcomes :
        /\ Incident(ok)
        /\ Step(r, HandlerGotNames(UpstreamFailed(req[r], ok), useRedis,
                       FetchAllUsers(ok, upstream)), req)
    /\ UNCHANGED <<ACCESS_TOKEN, useRedis, upstream, zset, kv>>

\* redis.on("error"), lines 31-34.
RedisError_Toggles ==
    /\ incidents < MaxIncidents
    /\ incidents' = incidents + 1
    /\ useRedis' = ~useRedis
    /\ req' = [r \in Requests |->
                IF req[r].pc \in {"idle", "done"} THEN req[r]
                ELSE [req[r] EXCEPT !.flagOn = FALSE]]
    /\ UNCHANGED <<ACCESS_TOKEN, upstream, zset, kv, queue>>
RedisError ==
    /\ useRedis
    /\ incidents < MaxIncidents
    /\ incidents' = incidents + 1
    /\ useRedis' = FALSE
    /\ req' = [r \in Requests |->
                IF req[r].pc \in {"idle", "done"} THEN req[r]
                ELSE [req[r] EXCEPT !.flagOn = FALSE]]
    /\ UNCHANGED <<ACCESS_TOKEN, upstream, zset, kv, queue>>

\* The TTL of a cached response entry runs out.
Expire(k) ==
    /\ kv[k].present
    /\ incidents < MaxIncidents
    /\ incidents' = incidents + 1
    /\ kv' = [kv EXCEPT ![k] = Absent]
    /\ req' = Noted("noExpiry")
    /\ UNCHANGED <<ACCESS_TOKEN, useRedis, upstream, zset, queue>>

\* The process is stopped with no request in flight (shutdown, lines
\* 141-151) and started again, possibly with another token, against the
\* same store.
Restart(t) ==
    /\ incidents < MaxIncidents
    /\ \A r \in Requests : req[r].pc \in {"idle", "done"}
    /\ \E r \in Requests : req[r].pc = "done"
    /\ queue = << >>
    /\ ACCESS_TOKEN' = t
    /\ useRedis' = TRUE
    /\ req' = [r \in Requests |-> NewRequest(r)]
    /\ incidents' = incidents + 1
    /\ UNCHANGED <<upstream, zset, kv, queue>>

Next ==
    \/ \E r \in Requests : Arrive(r)
    \/ \E r \in Requests : GetReply(r)
    \/ \E r \in Requests : FirstReadReply(r)
    \/ \E r \in Requests : MappingReply(r)
    \/ \E r \in Requests : PostsReply(r)
    \/ \E r \in Requests : ExecReply(r)
    \/ \E r \in Requests : SecondReadReply(r)
    \/ \E r \in Requests : NamesReply(r)
    \/ SetexReply
    \/ RedisError
    \/ \E k \in CacheKeys : Expire(k)
    \/ \E t \in Tokens : Restart(t)

Spec == Init /\ [][Next]_vars

\* Every command sent to the store is answered (the client's connect timeout
\* and bounded retries) and every upstream call returns or fails (the 10 s
\* request timeout of the axios instance).
StoreAnswers ==
    \/ \E r \in Requests : GetReply(r) \/ FirstReadReply(r) \/ ExecReply(r)
                              \/ SecondReadReply(r)
    \/ SetexReply
UpstreamAnswers(r) == MappingReply(r) \/ PostsReply(r) \/ NamesReply(r)

\* The liveness specification starts from the upstream state of the spec's
\* scenario and an empty store.
FairInit ==
    /\ Init
    /\ upstream = UpstreamAliceBob
    /\ \A k \in CacheKeys : ~kv[k].present

\* One run of the process: the steps of Next but the restart.
FairNext ==
    \/ \E r \in Requests : Arrive(r)
    \/ StoreAnswers
    \/ \E r \in Requests : UpstreamAnswers(r)
    \/ RedisError
    \/ \E k \in CacheKeys : Expire(k)

FairSpec ==
    /\ FairInit
    /\ [][FairNext]_vars
    /\ WF_vars(StoreAnswers)
    /\ \A r \in Requests : WF_vars(UpstreamAnswers(r))

\* --------------------------------------------------------------- claims

Done(r) == req[r].pc = "done"

\* The leaderboard the endpoint is specified to answer for the upstream
\* state up: the users of the highest post counts, at most 5, each with its
\* upstream id, name and number of posts, in descending order of posts.
IsLeaderboardOf(text, up) ==
    LET e == text.val.entries
        listed == {e[i].user_id : i \in 1..Len(e)}
    IN /\ text.wf
       /\ text.val.kind = "list"
       /\ Len(e) = Min(RangeStop + 1, Cardinality(DOMAIN up.users))
       /\ Cardinality(listed) = Len(e)
       /\ \A i \in 1..Len(e) :
            /\ e[i].user_id \in DOMAIN up.users
            /\ e[i].name = up.users[e[i].user_id]
            /\ e[i].post_count = Num(up.posts[e[i].user_id])
       /\ \A i \in 1..Len(e) : \A j \in 1..Len(e) :
            i < j => up.posts[e[i].user_id] >= up.posts[e[j].user_id]
       /\ \A i \in 1..Len(e) : \A k \in DOMAIN up.users \ listed :
            up.posts[e[i].user_id] >= up.posts[k]

\* C1: a request served with the store flag disabled from its arrival on,
\* with no upstream call failing and at least one upstream user, is answered
\* with the leaderboard of the upstream state.
C1_DisabledStoreServesLeaderboard ==
    \A r \in Requests :
        (/\ Done(r)
         /\ ~req[r].flagAtArrival
         /\ req[r].upstreamOK
         /\ DOMAIN upstream.users # {})
        => IsLeaderboardOf(req[r].body, upstream)

\* C2: with the store enabled, the sorted set empty when the request arrives
\* and nothing failing, the request is answered with the leaderboard of the
\* upstream state.
C2_ColdStartServesLeaderboard ==
    \A r \in Requests :
        (/\ Done(r)
         /\ incidents = 0
         /\ req[r].flagOn
         /\ req[r].zsetAtArrival = {}
         /\ req[r].firstRead = "empty")
        => IsLeaderboardOf(req[r].body, upstream)

\* C3: every successful response is a list of at most 5 entries, each with
\* an integer post_count >= 0 and the upstream name of its user_id, or
\* "Unknown" when the upstream mapping has no such id.
C3_ResponseShape ==
    \A r \in Requests :
        (Done(r) /\ req[r].status = 200)
        => LET e == req[r].body.val.entries
           IN /\ req[r].body.val.kind = "list"
              /\ Len(e) <= RangeStop + 1
              /\ \A i \in 1..Len(e) :
                    /\ e[i].post_count.t = "num"
                    /\ e[i].post_count.v >= 0
                    /\ e[i].name = NameOf(upstream.users, e[i].user_id)

\* r2 arrived after r1 had responded, in the same process run.
Consecutive(r1, r2) == Done(r2) /\ r1 \in req[r2].doneBefore

UpstreamCalls(r) == req[r].usersCalls + req[r].postsCalls

\* The store flag was enabled from r1's arrival to r2's response and no
\* cache entry expired in between.
EnabledWindow(r1, r2) ==
    /\ req[r1].flagOn
    /\ req[r2].flagOn
    /\ req[r1].noExpiry

\* C4 as stated: of two consecutive requests with the store flag enabled
\* within one TTL window, the second is answered with the payload of the
\* first and makes no upstream call.
C4_ConsecutiveIdempotentFlagOnly ==
    \A r1 \in Requests : \A r2 \in Requests :
        (Consecutive(r1, r2) /\ EnabledWindow(r1, r2))
        => /\ req[r2].body = req[r1].body
           /\ UpstreamCalls(r2) = 0

\* C4, amended: of two consecutive requests with the store flag enabled
\* within one TTL window, no store command rejected since the first arrived
\* and the first request's cache lookup not ending in the middleware's
\* catch, the second is answered with the payload of the first and makes no
\* upstream call.
C4_ConsecutiveIdempotent ==
    \A r1 \in Requests : \A r2 \in Requests :
        (/\ Consecutive(r1, r2)
         /\ EnabledWindow(r1, r2)
         /\ req[r1].storeOK
         /\ req[r1].mwCaught = "no")
        => /\ req[r2].body = req[r1].body
           /\ UpstreamCalls(r2) = 0

\* The first request missed, computed a non-empty leaderboard and wrote it;
\* the second was served from the cache.
C4_Witness ==
    \E r1 \in Requests : \E r2 \in Requests :
        /\ Consecutive(r1, r2)
        /\ EnabledWindow(r1, r2)
        /\ req[r1].storeOK
        /\ req[r1].mwCaught = "no"
        /\ req[r1].cacheWrites = 1
        /\ UpstreamCalls(r1) > 0
        /\ Len(req[r1].body.val.entries) > 0
        /\ req[r2].hit

\* C5 as stated: a request is served from the cache only an entry written
\* under its own bearer token.
C5_HitOnlyUnderSameToken ==
    \A r \in Requests : req[r].hit => req[r].hitBy = req[r].token

\* C5, amended: two bearer tokens whose last 6 characters differ yield
\* different cache keys, and a request is served from the cache only an
\* entry written under a token with the same last 6 characters as its own.
C5_HitOnlyUnderSameFingerprint ==
    /\ \A t1 \in Tokens : \A t2 \in Tokens :
        SliceLast(t1, FingerprintLen) # SliceLast(t2, FingerprintLen)
        => CacheKey(LogicalKey, t1) # CacheKey(LogicalKey, t2)
    /\ \A r \in Requests :
        req[r].hit =>
            SliceLast(req[r].hitBy, FingerprintLen)
                = SliceLast(req[r].token, FingerprintLen)

\* After a restart under a token of another suffix, a request missed the
\* cache while the entry written under the former token was still there.
C5_Witness ==
    \E r \in Requests : \E k \in CacheKeys :
        /\ Done(r)
        /\ req[r].mwCaught = "no"
        /\ ~req[r].hit
        /\ req[r].noExpiry
        /\ kv[k].present
        /\ kv[k].by # << >>
        /\ SliceLast(kv[k].by, FingerprintLen)
             # SliceLast(req[r].token, FingerprintLen)

\* C6: a request whose first read of the sorted set came back empty runs
\* one refresh pass, never more, and the pass is over when the response is
\* emitted.
C6_ColdStartOneRefresh ==
    \A r \in Requests :
        /\ req[r].refreshes <= 1
        /\ req[r].firstRead = "empty" => req[r].refreshes = 1
        /\ req[r].nresp > 0 => req[r].refreshesDone = req[r].refreshes

C6_Witness ==
    \E r \in Requests :
        /\ Done(r)
        /\ req[r].firstRead = "empty"
        /\ req[r].refreshesDone = 1
        /\ req[r].passWrites > 0

\* C7: a refresh pass whose fetch of the user mapping failed writes nothing
\* to the sorted set and fetches no posts, and its request is answered
\* without an error.
C7_MappingFailureIsNoOp ==
    \A r \in Requests :
        req[r].mappingFailed =>
            /\ req[r].passWrites = 0
            /\ req[r].postsCalls = 0
            /\ Done(r) => req[r].status = 200

\* C8: no request is answered twice, and a request that is over was
\* answered once.
C8_ExactlyOneResponse ==
    \A r \in Requests :
        /\ req[r].nresp <= 1
        /\ Done(r) => req[r].nresp = 1

\* One request was answered from the cache and another by the handler's
\* failure path.
C8_Witness ==
    \E r1 \in Requests : \E r2 \in Requests :
        /\ Done(r1) /\ req[r1].hit
        /\ Done(r2) /\ req[r2].handlerFailed

\* The response of the handler's failure path.
IsInternalError(r) ==
    /\ req[r].status = 500
    /\ req[r].body.val.kind = "error"
    /\ req[r].body.val.error = "Internal server error"
    /\ req[r].body.val.details = "store error"

\* C9: every request that arrived is eventually answered, and when its
\* handler failed, the answer is the 500 response with the generic error and
\* the underlying message.
C9_EventuallyAnswered ==
    \A r \in Requests :
        (req[r].pc # "idle") ~>
            (/\ Done(r)
             /\ req[r].nresp = 1
             /\ req[r].handlerFailed => IsInternalError(r))

C9_Witness ==
    \E r \in Requests : Done(r) /\ req[r].handlerFailed /\ IsInternalError(r)

\* C10: a request whose cache lookup ended in the middleware's catch enters
\* the handler once with res.json not wrapped, writes nothing to the cache
\* and is not answered by the middleware; a 500 response comes from the
\* handler's own failure path only.
C10_MiddlewareFaultFallsThrough ==
    \A r \in Requests :
        /\ req[r].mwCaught # "no" =>
            /\ req[r].nextCalls = 1
            /\ ~req[r].wrapped
            /\ req[r].cacheWrites = 0
            /\ ~req[r].hit
        /\ req[r].status = 500 => req[r].handlerFailed

\* One request fell through on a rejected get, another on a cached value
\* that did not parse.
C10_Witness ==
    \E r1 \in Requests : \E r2 \in Requests :
        /\ Done(r1) /\ req[r1].mwCaught = "store error"
        /\ Done(r2) /\ req[r2].mwCaught = "parse error"

\* C11: a request during which the store flag stayed enabled is never
\* answered 500, whichever of its store commands (get, setex, zrevrange,
\* exec) was rejected.
C11_StoreFailureSwallowed ==
    \A r \in Requests :
        (Done(r) /\ req[r].flagOn) => req[r].status # 500

\* C12: while the store flag is disabled no command is sent to the store:
\* a step taken with useRedis false leaves the connection's queue as it was
\* or takes the answered command off it.
C12_NoStoreOperationAfterDisable ==
    [][~useRedis => \/ queue' = queue
                    \/ queue # << >> /\ queue' = Tail(queue)]_vars

\* C13: within one run of the process (any step but a restart) the store
\* flag, once false, is false in the next state too.
C13_FlagOneWay ==
    [][(~useRedis /\ ~(\E t \in Tokens : Restart(t))) => ~useRedis']_vars

\* The flag is disabled and a request that arrived after it was disabled
\* has been served to the end.
C13_Witness ==
    \E r \in Requests :
        /\ ~useRedis
        /\ Done(r)
        /\ ~req[r].flagAtArrival

\* What C14 says of a request served from the cache: the handler was not
\* entered, no upstream call was made, and the request sent neither a cache
\* write nor sorted-set adds.
ServedWithoutEffect(r) ==
    /\ req[r].nextCalls = 0
    /\ UpstreamCalls(r) = 0
    /\ req[r].refreshes = 0
    /\ req[r].passWrites = 0
    /\ req[r].cacheWrites = 0

\* C14 as stated: a request whose get(cacheKey) returned a value never
\* enters the handler, makes no upstream call and writes neither the sorted
\* set nor a cached response entry.
C14_ValueReturnedNoEffect ==
    \A r \in Requests :
        (req[r].hit \/ req[r].mwCaught = "parse error") => ServedWithoutEffect(r)

\* C14, amended: a request whose get(cacheKey) returned a value that
\* deserialized is answered at once with that value and status 200, never
\* enters the handler, makes no upstream call and writes neither the sorted
\* set nor a cached response entry.
C14_HitNoEffect ==
    \A r \in Requests :
        req[r].hit =>
            /\ Done(r)
            /\ req[r].status = 200
            /\ ServedWithoutEffect(r)

\* A request was served the entry another request of the same run wrote.
C14_Witness ==
    \E r \in Requests : \E w \in Requests :
        /\ req[r].hit
        /\ req[r].flagAtArrival
        /\ w # r
        /\ req[w].cacheWrites = 1
        /\ kv[req[r].cacheKey].present
        /\ req[r].body = JSONstringify(JSONparse(kv[req[r].cacheKey].text))

\* C15: the step in which a request that missed the cache is answered, the
\* store flag enabled throughout, is the step that sends its cache write: the
\* write is the last command on the connection, not yet answered, for the
\* request's cache key and with the body sent; and no later step, the
\* write's rejection included, changes the status or body of a request that
\* has been answered.
C15_WriteIssuedNotAwaited ==
    [][\A r \in Requests :
        /\ (/\ req[r].nresp = 0
            /\ req'[r].nresp = 1
            /\ req'[r].wrapped
            /\ req'[r].flagOn)
           => /\ req'[r].cacheWrites = 1
              /\ queue' # << >>
              /\ LET write == queue'[Len(queue')]
                 IN /\ write.op = "setex"
                    /\ write.r = r
                    /\ write.key = req'[r].cacheKey
                    /\ write.text = req'[r].body
        /\ (Done(r) /\ req'[r].pc = "done")
           => /\ req'[r].nresp = req[r].nresp
              /\ req'[r].status = req[r].status
              /\ req'[r].body = req[r].body]_vars

\* The only request so far missed the cache and was answered 200; its cache
\* write was rejected afterwards, so the entry is absent.
C15_Witness ==
    \E r \in Requests :
        /\ \A p \in Requests \ {r} : req[p].pc = "idle"
        /\ Done(r)
        /\ req[r].wrapped
        /\ req[r].flagOn
        /\ req[r].status = 200
        /\ req[r].cacheWrites = 1
        /\ req[r].passWrites > 0
        /\ zset # {}
        /\ queue = << >>
        /\ req[r].noExpiry
        /\ ~req[r].storeOK
        /\ ~kv[req[r].cacheKey].present

\* In this step the refresh pass of request r got the answer of a posts
\* fetch; it failed when the step is an incident.
PostsStep(r) ==
    /\ req[r].pc = "posts"
    /\ req'[r].pc # "posts" \/ req'[r].userIds # req[r].userIds
StepFailed == incidents' # incidents

\* In this step the pipeline of request r's pass was executed by the store.
ExecStep(r) ==
    /\ req[r].pc = "exec"
    /\ req'[r].pc # "exec"
    /\ ~StepFailed

\* C16: in a refresh pass a posts fetch that fails queues score 0 for its
\* user and one that succeeds the number of the user's posts, and the pass
\* goes on to the next user; the batch the pass submits holds every user of
\* the mapping once, and when the store executes it every one of them is in
\* the sorted set with the score queued.
C16_PostsFailureScoresZero ==
    [][\A r \in Requests :
        /\ PostsStep(r) =>
            LET id == Head(req[r].userIds)
                score == IF StepFailed THEN 0 ELSE upstream.posts[id]
                batch == Append(req[r].pipeline, <<score, id>>)
            IN IF Len(req[r].userIds) > 1
               THEN /\ req'[r].pc = "posts"
                    /\ req'[r].userIds = Tail(req[r].userIds)
                    /\ req'[r].pipeline = batch
                    /\ queue' = queue
               ELSE /\ req'[r].pc = "exec"
                    /\ queue' # << >>
                    /\ LET sent == queue'[Len(queue')]
                       IN /\ sent.op = "exec"
                          /\ sent.r = r
                          /\ sent.batch = batch
                          /\ [i \in 1..Len(batch) |-> batch[i][2]]
                                = ObjectKeys(upstream.users)
        /\ ExecStep(r) =>
            LET batch == Head(queue).batch
            IN \A i \in 1..Len(batch) : <<batch[i][2], batch[i][1]>> \in zset']_vars

\* The sorted set holds one user with posts at score 0, its fetch having
\* failed, and another at the number of its posts.
C16_Witness ==
    \E a \in DOMAIN upstream.users : \E b \in DOMAIN upstream.users :
        /\ upstream.posts[a] > 0
        /\ <<a, 0>> \in zset
        /\ upstream.posts[b] > 0
        /\ <<b, upstream.posts[b]>> \in zset

Members(zs) == {p[1] : p \in zs}

\* The sorted set, and what a request holds of it after a read, is empty or
\* has every user of the upstream mapping (fewer than the 5 of a read).
WholePassesOnly ==
    /\ Members(zset) \in {{}, DOMAIN upstream.users}
    /\ \A r \in Requests :
        Len(req[r].topUsers) \in {0, 2 * Cardinality(DOMAIN upstream.users)}

\* C17: a step in which a refresh pass gets the answer of a posts fetch
\* leaves the sorted set as it was; the sorted set changes only in the step
\* that executes a pass's pipeline, which adds every pair of the batch and
\* no other member; so the sorted set and every read of it hold none or all
\* of the users of a pass, never a part.
C17_BatchAppliedAsUnit ==
    [][/\ \A r \in Requests : PostsStep(r) => zset' = zset
       /\ zset' # zset =>
            \E r \in Requests :
                /\ ExecStep(r)
                /\ Head(queue).r = r
                /\ LET batch == Head(queue).batch
                   IN /\ \A i \in 1..Len(batch) :
                            <<batch[i][2], batch[i][1]>> \in zset'
                      /\ Members(zset') =
                            Members(zset) \cup {batch[i][2] : i \in 1..Len(batch)}
       /\ WholePassesOnly']_vars

\* A pass has queued the add of one user and is fetching the posts of the
\* next, the sorted set still empty, while another request reads it.
C17_Witness ==
    \E r \in Requests : \E p \in Requests :
        /\ req[r].pc = "posts"
        /\ Len(req[r].pipeline) > 0
        /\ zset = {}
        /\ req[p].pc = "zrevrange1"

\* C18: a request runs a refresh pass only when its first read of the sorted
\* set came back empty (or was skipped for the empty list, the store flag
\* disabled); a request whose first read was not empty runs no pass, fetches
\* no user's posts and sends no add to the sorted set.
C18_RefreshOnlyWhenEmpty ==
    \A r \in Requests :
        /\ req[r].refreshes > 0 => req[r].firstRead \in {"empty", "skipped"}
        /\ req[r].firstRead = "nonempty" =>
            /\ req[r].refreshes = 0
            /\ req[r].postsCalls = 0
            /\ req[r].passWrites = 0
            /\ req[r].pc \notin {"mapping", "posts", "exec"}

\* A request missed the response cache, read a sorted set that was not
\* empty and was answered after the one upstream call of line 123.
C18_Witness ==
    \E r \in Requests :
        /\ Done(r)
        /\ req[r].firstRead = "nonempty"
        /\ req[r].usersCalls = 1
        /\ req[r].status = 200
        /\ zset # {}

\* The requests that ran a refresh pass.
Refreshers == {r \in Requests : req[r].refreshes > 0}

\* Every pass is over, each started on an empty first read, no upstream call
\* of its request failed, no store command was rejected and the store flag
\* stayed enabled.
PassesCompletedCleanly ==
    /\ Refreshers # {}
    /\ \A r \in Refreshers :
        /\ req[r].refreshesDone = req[r].refreshes
        /\ req[r].firstRead = "empty"
        /\ req[r].upstreamOK
        /\ req[r].storeOK
        /\ req[r].flagOn

\* C19: whatever the interleaving of the refresh passes, the sorted set has
\* at most one score for a member; and once every pass is over, with no
\* failure and the store flag enabled, each upstream user is in the sorted
\* set with the number of its posts as score.
C19_ConcurrentRefreshConverges ==
    /\ \A p \in zset : \A q \in zset : p[1] = q[1] => p = q
    /\ PassesCompletedCleanly =>
        \A id \in DOMAIN upstream.users : <<id, upstream.posts[id]>> \in zset

\* Both requests read the empty sorted set before either pass was executed,
\* each ran its pass to the end, and the sorted set holds the scores of an
\* upstream with several users.
C19_Witness ==
    /\ Refreshers = Requests
    /\ PassesCompletedCleanly
    /\ \A r \in Requests : req[r].passWrites > 1
    /\ Cardinality(zset) > 1

\* C20: every cached response entry the process wrote holds a leaderboard
\* list, never the error body of the handler's failure path, and no request
\* is served an error body from the cache.
C20_ErrorBodyNeverCached ==
    /\ \A k \in CacheKeys :
        (kv[k].present /\ kv[k].by # << >>) => kv[k].text.val.kind = "list"
    /\ \A r \in Requests :
        req[r].hit => req[r].body.val.kind = "list"

====
